---- MODULE Spec2Model ----
(***************************************************************************)
(* Model of bibo_21008 (biblioth-que21008): the choropleth map builders of *)
(* electoral_maps.py and plots.py, the package import, and the client-side *)
(* dropdown callback.                                                      *)
(*                                                                         *)
(* Numbers: pandas computes the pivot cells as float64 means, so every     *)
(* numeric cell is modelled as an exact rational [num, den] (den > 0);     *)
(* the missing value NaN is the record [num |-> 0, den |-> 0].             *)
(***************************************************************************)
EXTENDS Integers, Sequences, FiniteSets, TLC

\* ---------------------------------------------------------------- bounds
\* styled_* calls made in one process
MaxCharts == 2
MaxRows    == 2      \* rows of the vote table (CSV)
MaxRegions == 2      \* rows of the geometry table
MaxZoom    == 2      \* zoom levels tried for bokeh_td_election_map

\* ------------------------------------------------------- input universes
Regions    == {"A", "B"}
Cands      == {"cand1", "cand2"}
Years      == {2023, 2024}
VoteValues == {1, 2}

\* Lexicographic order of the names used as index / column labels
\* (pandas sorts group keys; Python compares str lexicographically).
SortedNames == <<"A", "B", "cand1", "cand2">>

Rank(n) == CHOOSE i \in 1..Len(SortedNames) : SortedNames[i] = n

\* ------------------------------------------------------------- rationals
NaN == [num |-> 0, den |-> 0]

RECURSIVE GCD(_, _)
GCD(a, b) == IF b = 0 THEN a ELSE GCD(b, a % b)

Abs(n) == IF n < 0 THEN -n ELSE n

Rat(n) == [num |-> n, den |-> 1]

Frac(n, d) ==
    LET g == GCD(Abs(n), d)
    IN  [num |-> n \div g, den |-> d \div g]

IsNaN(v) == v.den = 0

RatAdd(a, b) == Frac(a.num * b.den + b.num * a.den, a.den * b.den)
RatSub(a, b) == Frac(a.num * b.den - b.num * a.den, a.den * b.den)

RatLeq(a, b) == a.num * b.den <= b.num * a.den
RatLt(a, b)  == a.num * b.den <  b.num * a.den

RECURSIVE SumSeq(_)
SumSeq(s) == IF s = <<>> THEN 0 ELSE Head(s) + SumSeq(Tail(s))

\* numpy/pandas mean of a non-empty sequence of integers
Mean(s) == Frac(SumSeq(s), Len(s))

\* ndarray.min() / ndarray.max() over a non-empty set of non-missing cells
MinOf(S) == CHOOSE m \in S : \A v \in S : RatLeq(m, v)
MaxOf(S) == CHOOSE m \in S : \A v \in S : RatLeq(v, m)

\* ------------------------------------------------------ sequence helpers
Range(s) == {s[i] : i \in 1..Len(s)}

RECURSIVE SortSet(_)
\* sorted(S) for a set of names
SortSet(S) ==
    IF S = {} THEN <<>>
    ELSE LET m == CHOOSE x \in S : \A y \in S : Rank(x) <= Rank(y)
         IN  <<m>> \o SortSet(S \ {m})

RECURSIVE Flatten(_)
Flatten(ss) == IF ss = <<>> THEN <<>> ELSE Head(ss) \o Flatten(Tail(ss))

\* --------------------------------------------------- create_td: steps 2-5
\* mutant: the year filter is not applied
QueryYearAll(df, year) == df

\* df_elections.query(f"year == {year}")
QueryYear(df, year) == SelectSeq(df, LAMBDA r : r.year = year)

\* nb_votes of the rows of one (moughataa, candidate) group, in row order
GroupVotes(df, m, c) ==
    LET g == SelectSeq(df, LAMBDA r : r.moughataa = m /\ r.candidate = c)
    IN  [i \in 1..Len(g) |-> g[i].nb_votes]

\* aggregation of one pivot cell: pivot_table's default aggfunc ("mean"),
\* fill_value=0 where the group has no row
PivotCell(df, m, c) ==
    IF GroupVotes(df, m, c) = <<>> THEN Rat(0) ELSE Mean(GroupVotes(df, m, c))

\* index of the pivot: one entry per distinct moughataa, sorted
PivotIndex(df) == SortSet({df[i].moughataa : i \in 1..Len(df)})

\* df_year.pivot_table(index='moughataa', columns='candidate',
\*                     values='nb_votes', fill_value=0).reset_index()
PivotTable(df) ==
    LET idx  == PivotIndex(df)
        cols == {df[i].candidate : i \in 1..Len(df)}
    IN  [i \in 1..Len(idx) |->
            [moughataa |-> idx[i],
             cols      |-> [c \in cols |-> PivotCell(df, idx[i], c)]]]

\* [col for col in df_pivot.columns if col != 'moughataa']
PivotColumns(df) == SortSet({df[i].candidate : i \in 1..Len(df)})

\* mutant: an inner join, which drops the left rows without a match
MergeInner(gdf, right, cols) ==
    Flatten([i \in 1..Len(gdf) |->
        LET hits == SelectSeq(right, LAMBDA r : r.moughataa = gdf[i])
        IN  [k \in 1..Len(hits) |->
                [moughataa |-> gdf[i], cols |-> hits[k].cols]]])

\* gdf.merge(df_pivot, on="moughataa", how="left"): for every left row, in
\* order, one output row per matching right row, or one row of missing
\* values when nothing matches
MergeLeft(gdf, right, cols) ==
    Flatten([i \in 1..Len(gdf) |->
        LET hits == SelectSeq(right, LAMBDA r : r.moughataa = gdf[i])
        IN  IF hits = <<>>
            THEN << [moughataa |-> gdf[i], cols |-> [c \in cols |-> NaN]] >>
            ELSE [k \in 1..Len(hits) |->
                    [moughataa |-> gdf[i], cols |-> hits[k].cols]]])

\* mutant: the missing values are left in place
FillNaSkipped(t) == t

\* DataFrame.fillna(0)
FillNa(t) ==
    [i \in 1..Len(t) |->
        [t[i] EXCEPT !.cols =
            [c \in DOMAIN t[i].cols |->
                IF IsNaN(t[i].cols[c]) THEN Rat(0) ELSE t[i].cols[c]]]]

\* mutant: the last candidate instead of the first
LastCandidat(candidats) == candidats[Len(candidats)]

\* candidats[0]
FirstCandidat(candidats) == candidats[1]

\* merged['votes_display'] = merged[candidats[0]].astype(float)
\* merged['current_candidat'] = candidats[0]
WithDisplay(t, candidats) ==
    [i \in 1..Len(t) |->
        [moughataa        |-> t[i].moughataa,
         cols             |-> t[i].cols,
         votes_display    |-> t[i].cols[FirstCandidat(candidats)],
         current_candidat |-> FirstCandidat(candidats)]]

\* merged[candidats].values: every cell of the candidate columns
AllVotes(t, candidats) ==
    {t[i].cols[c] : i \in 1..Len(t), c \in Range(candidats)}

\* GeoJSONDataSource(geojson=merged.to_json()): the rows of the table become
\* the columns of the client-side data, keyed by column name
ToColumns(t, candidats) ==
    [k \in {"moughataa", "votes_display", "current_candidat"}
           \cup Range(candidats) |->
        [i \in 1..Len(t) |->
            IF k = "moughataa" THEN t[i].moughataa
            ELSE IF k = "votes_display" THEN t[i].votes_display
            ELSE IF k = "current_candidat" THEN t[i].current_candidat
            ELSE t[i].cols[k]]]

\* mutant: the maximum of the displayed candidate only
VoteMaxActive(t, candidats) ==
    MaxOf({t[i].votes_display : i \in 1..Len(t)})

\* vote_min / vote_max handed to LinearColorMapper(low=..., high=...)
VoteMin(t, candidats) == MinOf(AllVotes(t, candidats))
VoteMax(t, candidats) == MaxOf(AllVotes(t, candidats))

\* ------------------------------------------------------------- geometry
\* A geometry table: the region names row by row, its coordinate system
\* ("naive" is crs None), its bounding box <<minx, miny, maxx, maxy>> and
\* whether total_bounds can be computed at all.
GeomKinds ==
    { [crs |-> "EPSG:3857", bounds_ok |-> TRUE,  box |-> <<0, 0, 0, 0>>],
      [crs |-> "EPSG:4326", bounds_ok |-> TRUE,  box |-> <<-25, 0, 0, 25>>],
      [crs |-> "naive",     bounds_ok |-> TRUE,  box |-> <<-25, 0, 0, 25>>],
      [crs |-> "EPSG:4326", bounds_ok |-> FALSE, box |-> <<-25, 0, 0, 25>>] }

NameSeqs == { n : n \in UNION {[1..k -> Regions] : k \in 0..MaxRegions} }

\* gdf.to_crs(epsg=3857) raises on a naive geometry (crs None)
ToCrsFails(g) == g.crs = "naive"

\* gdf.to_crs(epsg=3857) when it succeeds: the projection, modelled as the
\* scaling of degrees to metres (100000 m per degree)
ToCrs(g) ==
    [g EXCEPT !.crs = "EPSG:3857",
              !.box = [i \in 1..4 |-> g.box[i] * 100000]]

\* gdf.crs is None or gdf.crs.to_epsg() != 3857
NeedsConversion(g) == g.crs = "naive" \/ g.crs # "EPSG:3857"

\* create_td_election_map, lines 88-96: both attempts are guarded
ConvertTd(g) ==
    IF NeedsConversion(g) /\ ~ToCrsFails(g) THEN ToCrs(g) ELSE g

\* (maxx - minx) * 0.08 if (maxx - minx) != 0 else default
Pad(d, dflt) == IF d # 0 THEN Frac(d * 8, 100) ELSE Rat(dflt)

\* create_td_election_map, lines 159-169
ViewportTd(g) ==
    IF g.bounds_ok
    THEN LET minx == g.box[1]   miny == g.box[2]
             maxx == g.box[3]   maxy == g.box[4]
             pad_x == Pad(maxx - minx, 1000000)
             pad_y == Pad(maxy - miny, 800000)
         IN  [kind    |-> "bounds",
              x_range |-> <<RatSub(Rat(minx), pad_x), RatAdd(Rat(maxx), pad_x)>>,
              y_range |-> <<RatSub(Rat(miny), pad_y), RatAdd(Rat(maxy), pad_y)>>]
    ELSE [kind    |-> "fallback",
          x_range |-> <<Rat(-2000000), Rat(-500000)>>,
          y_range |-> <<Rat(1600000), Rat(3200000)>>]

\* ------------------------------------------------------------ vote table
Rows == [moughataa : Regions, candidate : Cands, year : Years,
         nb_votes : VoteValues]

RowRank(r) ==
    ((Rank(r.moughataa) * 8 + Rank(r.candidate)) * 4096 + r.year) * 64
        + r.nb_votes

\* the end-to-end scenario of the specification
ScenarioTable ==
    << [moughataa |-> "A", candidate |-> "cand1", year |-> 2024, nb_votes |-> 10],
       [moughataa |-> "B", candidate |-> "cand1", year |-> 2024, nb_votes |-> 20],
       [moughataa |-> "A", candidate |-> "cand2", year |-> 2024, nb_votes |-> 5] >>

\* Vote tables read from the CSV.  The builder never depends on the row
\* order (the pivot groups and sorts), so one order per multiset is listed.
SortedTables ==
    { t \in UNION {[1..n -> Rows] : n \in 0..MaxRows} :
        \A i \in 1..(Len(t) - 1) : RowRank(t[i]) <= RowRank(t[i + 1]) }

Tables == { t : t \in SortedTables \cup {ScenarioTable} }

\* ------------------------------------------------------ exceptions raised
\* (the message of plots.py quotes the word bokeh in backticks)
ErrBokehTd ==
    "ImportError: Bokeh is required for electoral_maps. Install with: pip install bokeh"
ErrGeoPandasTd ==
    "ImportError: GeoPandas is required for electoral_maps. Install with: pip install geopandas"
ErrBokehSimplified ==
    "ImportError: Bokeh is required. Install with: pip install bokeh"
ErrBokehPlots ==
    "RuntimeError: Bokeh is not available in the environment. Install bokeh to use this function."
ErrNoGeoPandas ==
    "ModuleNotFoundError: No module named 'geopandas'"
ErrNoGeometry ==
    "TypeError: gdf must be a GeoDataFrame with a 'geometry' column"
ErrNaiveCrs ==
    "ValueError: Cannot transform naive geometries. Please set a crs on the object first."
ErrZeroSize ==
    "ValueError: zero-size array to reduction operation minimum which has no identity"
ErrIndex ==
    "IndexError: list index out of range"

\* the message of electoral_maps.py line 104
NoDataError(year) ==
    "ValueError: No election data found for year " \o ToString(year)

\* -------------------------------------------------------------- styles.py
\* Python's None, for an optional style
None == [none |-> TRUE]

\* styles.py lines 8-25: the frozen dataclass BiboStyle, with its defaults
\* (the decimal fractions are kept exact)
BiboStyle ==
    [font_family |-> "DejaVu Sans",
     font_size   |-> 11,
     title_size  |-> 14,
     label_size  |-> 11,
     line_width  |-> Frac(11, 5),
     grid_alpha  |-> Frac(1, 4),
     spine_alpha |-> Frac(7, 20),
     tick_alpha  |-> Frac(4, 5),
     palette     |-> <<"#2E86AB", "#F18F01", "#C73E1D", "#6A4C93",
                       "#2A9D8F", "#264653">>]

\* styles a caller builds with BiboStyle(...)
CustomStyles ==
    { [BiboStyle EXCEPT !.font_size = 9, !.title_size = 18,
                        !.label_size = 10, !.line_width = Rat(1),
                        !.tick_alpha = Rat(1)],
      [BiboStyle EXCEPT !.font_family = "serif", !.grid_alpha = Frac(1, 2),
                        !.spine_alpha = Rat(1),
                        !.palette = <<"#000000", "#777777">>] }

\* styles.py lines 32-48: the dictionary handed to mpl.rcParams.update
StyleParams(s) ==
    [ k \in { "font.family", "font.size", "axes.titlesize", "axes.labelsize",
              "axes.titleweight", "axes.grid", "grid.alpha",
              "axes.spines.top", "axes.spines.right", "axes.edgecolor",
              "xtick.color", "ytick.color", "lines.linewidth", "figure.dpi",
              "savefig.dpi" } |->
        CASE k = "font.family"       -> s.font_family
          [] k = "font.size"         -> s.font_size
          [] k = "axes.titlesize"    -> s.title_size
          [] k = "axes.labelsize"    -> s.label_size
          [] k = "axes.titleweight"  -> "bold"
          [] k = "axes.grid"         -> TRUE
          [] k = "grid.alpha"        -> s.grid_alpha
          [] k = "axes.spines.top"   -> FALSE
          [] k = "axes.spines.right" -> FALSE
          [] k = "axes.edgecolor"    -> <<0, 0, 0, s.spine_alpha>>
          [] k = "xtick.color"       -> <<0, 0, 0, s.tick_alpha>>
          [] k = "ytick.color"       -> <<0, 0, 0, s.tick_alpha>>
          [] k = "lines.linewidth"   -> s.line_width
          [] k = "figure.dpi"        -> 110
          [] k = "savefig.dpi"       -> 160 ]

\* dict.update on mpl.rcParams (styles.py line 32): the keys of d are
\* overwritten, every other key keeps its value
Update(rc, d) ==
    [ k \in DOMAIN rc |-> IF k \in DOMAIN d THEN d[k] ELSE rc[k] ]

\* mpl.rcParams when matplotlib is imported (styles.py line 6): the keys
\* set_bibo_style manages and one it does not
MplDefaults ==
    [ k \in { "font.family", "font.size", "axes.titlesize", "axes.labelsize",
              "axes.titleweight", "axes.grid", "grid.alpha",
              "axes.spines.top", "axes.spines.right", "axes.edgecolor",
              "xtick.color", "ytick.color", "lines.linewidth", "figure.dpi",
              "savefig.dpi", "axes.facecolor" } |->
        CASE k = "font.family"       -> "sans-serif"
          [] k = "font.size"         -> 10
          [] k = "axes.titlesize"    -> 12
          [] k = "axes.labelsize"    -> 10
          [] k = "axes.titleweight"  -> "normal"
          [] k = "axes.grid"         -> FALSE
          [] k = "grid.alpha"        -> Rat(1)
          [] k = "axes.spines.top"   -> TRUE
          [] k = "axes.spines.right" -> TRUE
          [] k = "axes.edgecolor"    -> <<0, 0, 0, Rat(1)>>
          [] k = "xtick.color"       -> <<0, 0, 0, Rat(1)>>
          [] k = "ytick.color"       -> <<0, 0, 0, Rat(1)>>
          [] k = "lines.linewidth"   -> Frac(3, 2)
          [] k = "figure.dpi"        -> 100
          [] k = "savefig.dpi"       -> 100
          [] k = "axes.facecolor"    -> "white" ]

\* ------------------------------------------------------------------ state
VARIABLES
    bokeh,                 \* environment: is Bokeh installed (a release
                           \*   that still ships bokeh.tile_providers)
    geopandas,             \* environment: is GeoPandas installed
    pkg,                   \* "unloaded", "imported" or "import_failed"
    BOKEH_AVAILABLE,       \* electoral_maps.BOKEH_AVAILABLE
    plots_BOKEH_AVAILABLE, \* plots.BOKEH_AVAILABLE
    call,                  \* the builder called and its arguments
    outcome,               \* "none", "returned" or "raised"
    error,                 \* the exception raised, "" if none
    effects,               \* external effects of the call, in order
    gdf,                   \* the geometry table after the conversion step
    df_pivot,              \* the reshaped (wide) vote table
    candidats,             \* the candidate columns, in order
    merged,                \* the merged table (Python side)
    source,                \* GeoJSONDataSource.data (client side)
    color_mapper,          \* LinearColorMapper low / high
    title,                 \* p.title.text
    select_value,          \* Select.value
    viewport,              \* x_range / y_range of the figure
    interacted,            \* has the dropdown callback run on this map
    DEFAULT_STYLE,         \* styles.DEFAULT_STYLE
    rcParams,              \* mpl.rcParams, the process-wide style
    figures,               \* the figures pyplot has created, in order
    axes,                  \* the axes of these figures, in order
    chart_call,            \* the latest styles / chart call, its arguments
    chart_ret,             \* what that call returned
    rc_before,             \* mpl.rcParams as that call found them
    ncalls                 \* number of styled_* calls made so far

maps == <<bokeh, geopandas, pkg, BOKEH_AVAILABLE, plots_BOKEH_AVAILABLE,
          call, outcome, error, effects, gdf, df_pivot, candidats, merged,
          source, color_mapper, title, select_value, viewport,
          interacted>>

charts == <<DEFAULT_STYLE, rcParams, figures, axes, chart_call, chart_ret,
            rc_before, ncalls>>

vars == <<maps, charts>>

env == <<bokeh, geopandas>>
mods == <<pkg, BOKEH_AVAILABLE, plots_BOKEH_AVAILABLE>>

NoCall     == [fn |-> "none"]
NoGdf      == [names |-> <<>>, crs |-> "none", bounds_ok |-> FALSE,
               box |-> <<0, 0, 0, 0>>]
NoMapper   == [low |-> NaN, high |-> NaN]
NoViewport == [kind |-> "none"]

Init ==
    /\ bokeh \in BOOLEAN
    /\ geopandas \in BOOLEAN
    /\ pkg = "unloaded"
    /\ BOKEH_AVAILABLE = FALSE
    /\ plots_BOKEH_AVAILABLE = FALSE
    /\ call = NoCall
    /\ outcome = "none"
    /\ error = ""
    /\ effects = <<>>
    /\ gdf = NoGdf
    /\ df_pivot = <<>>
    /\ candidats = <<>>
    /\ merged = <<>>
    /\ source = <<>>
    /\ color_mapper = NoMapper
    /\ title = ""
    /\ select_value = ""
    /\ viewport = NoViewport
    /\ interacted = FALSE
    /\ DEFAULT_STYLE = BiboStyle
    /\ rcParams = MplDefaults
    /\ figures = <<>>
    /\ axes = <<>>
    /\ chart_call = NoCall
    /\ chart_ret = None
    /\ rc_before = MplDefaults
    /\ ncalls = 0

\* ----------------------------------------------------- import bibo_21008
\* electoral_maps.py line 6: the unguarded top-level "import geopandas"
ElectoralMapsImports == geopandas

\* __init__.py imports .styles, .plots and .electoral_maps in turn
ImportPackage ==
    /\ pkg = "unloaded"
    /\ pkg' = IF ElectoralMapsImports THEN "imported" ELSE "import_failed"
    /\ error' = IF ElectoralMapsImports THEN ""
                ELSE ErrNoGeoPandas
       \* plots.py lines 9-23
    /\ plots_BOKEH_AVAILABLE' = bokeh
       \* electoral_maps.py lines 8-25, reached only after lines 5-6
    /\ BOKEH_AVAILABLE' = (ElectoralMapsImports /\ bokeh)
    /\ UNCHANGED <<charts, env, call, outcome, effects, gdf, df_pivot, candidats,
                   merged, source, color_mapper, title, select_value,
                   viewport, interacted>>

\* ------------------------------------------------------ outcomes of a call
Raise(c, err, eff, g) ==
    /\ call' = c
    /\ outcome' = "raised"
    /\ error' = err
    /\ effects' = eff
    /\ gdf' = g
    /\ UNCHANGED <<df_pivot, candidats, merged, source, color_mapper, title,
                   select_value, viewport, interacted>>

\* df_year.empty
DfEmpty(df) == Len(df) = 0

\* ------------------------------------------------- create_td_election_map
\* lines 134-251: data source, colour scale, figure, dropdown, layout
TdBuildFigure(c, g, pivot, cands, m, eff) ==
    IF m = <<>>
    THEN Raise(c, ErrZeroSize,
               eff \o <<"GeoJSONDataSource">>, g)
    ELSE /\ call' = c
         /\ outcome' = "returned"
         /\ error' = ""
         /\ effects' = eff \o <<"GeoJSONDataSource", "figure", "add_tile",
                                "patches", "Select">>
                           \o (IF c.show_plot THEN <<"show">> ELSE <<>>)
         /\ gdf' = g
         /\ df_pivot' = pivot
         /\ candidats' = cands
         /\ merged' = m
         /\ source' = ToColumns(m, cands)
         /\ color_mapper' = [low  |-> VoteMin(m, cands),
                             high |-> VoteMax(m, cands)]
         /\ title' = c.title_prefix \o " : " \o FirstCandidat(cands)
         /\ select_value' = FirstCandidat(cands)
         /\ viewport' = ViewportTd(g)

\* lines 115-127: merge on the geometry, display columns
TdMerge(c, g, pivot, cands, eff) ==
    IF cands = <<>>
    THEN Raise(c, ErrIndex, eff, g)
    ELSE TdBuildFigure(c, g, pivot, cands,
             WithDisplay(FillNa(MergeLeft(g.names, pivot, Range(cands))), cands),
             eff)

\* lines 98-113: year filter, data error, pivot
TdReshape(c, g, df_year, eff) ==
    IF DfEmpty(df_year)
    THEN Raise(c, NoDataError(c.year),
               eff, g)
    ELSE TdMerge(c, g, PivotTable(df_year), PivotColumns(df_year), eff)

CreateTdElectionMap(shp, csv, year, title_prefix, output_type, show_plot) ==
    LET c == [fn |-> "create_td_election_map", shapefile |-> shp, csv |-> csv,
              year |-> year, title_prefix |-> title_prefix,
              output_type |-> output_type, show_plot |-> show_plot]
        \* the dependency guards run before any argument is read
        c0 == [fn |-> "create_td_election_map"]
    IN
    /\ pkg = "imported"
    /\ outcome = "none"
    /\ UNCHANGED <<charts, env, mods, interacted>>
    /\ IF ~BOKEH_AVAILABLE
       THEN Raise(c0, ErrBokehTd,
                  <<>>, NoGdf)
       ELSE IF ~geopandas
       THEN Raise(c0, ErrGeoPandasTd,
                  <<>>, NoGdf)
       ELSE TdReshape(c, ConvertTd(shp), QueryYear(csv, year),
                (IF output_type = "notebook" THEN <<"output_notebook">> ELSE <<>>)
                    \o <<"read_file", "read_csv">>)

\* ------------------------------------------ the CustomJS dropdown callback
\* mutant: the hover column is not updated
CallbackDataVotesOnly(data, selected) ==
    [data EXCEPT !["votes_display"] = data[selected]]

\* data['votes_display'] = data[selected].slice();
\* for (...) data['current_candidat'][i] = selected;
CallbackData(data, selected) ==
    [data EXCEPT !["votes_display"] = data[selected],
                 !["current_candidat"] =
                     [i \in 1..Len(data["current_candidat"]) |-> selected]]

\* the title prefix written by the callback of each builder
CallbackPrefix(fn) ==
    IF fn = "create_td_election_map" THEN "Résultats électoraux : "
    ELSE "Résultats : "

\* The user picks another option of the dropdown; Bokeh runs the callback
\* on a change of Select.value only.
SelectCandidat(selected) ==
    /\ outcome = "returned"
    /\ call.fn \in {"create_td_election_map", "create_simplified_election_map"}
    /\ selected \in Range(candidats)
    /\ selected # select_value
    /\ select_value' = selected
    /\ source' = CallbackData(source, selected)
    /\ title' = CallbackPrefix(call.fn) \o selected
    /\ interacted' = TRUE
    /\ UNCHANGED <<charts, env, mods, call, outcome, error, effects, gdf, df_pivot,
                   candidats, merged, color_mapper, viewport>>

\* ----------------------------------------- create_simplified_election_map
\* pd.DataFrame(candidate_votes): the index is the sorted union of the
\* Series' labels, one column per key in insertion order, NaN where a
\* Series has no entry
VotesDf(cv) ==
    LET labels == SortSet(UNION {DOMAIN cv.series[c] : c \in Range(cv.keys)})
    IN  [i \in 1..Len(labels) |->
            [moughataa |-> labels[i],
             cols |-> [c \in Range(cv.keys) |->
                         IF labels[i] \in DOMAIN cv.series[c]
                         THEN Rat(cv.series[c][labels[i]]) ELSE NaN]]]

\* the GeoJSON properties of the simplified map: the index is no property
ToColumnsSimplified(t, cands) ==
    [k \in {"votes_display", "current_candidat"} \cup Range(cands) |->
        ToColumns(t, cands)[k]]

\* lines 306-364
SimplifiedBuildFigure(c, m, cands) ==
    IF m = <<>>
    THEN Raise(c, ErrZeroSize,
               <<"GeoJSONDataSource">>, c.gdf)
    ELSE /\ call' = c
         /\ outcome' = "returned"
         /\ error' = ""
         /\ effects' = <<"GeoJSONDataSource", "figure", "patches", "Select">>
                           \o (IF c.show_plot THEN <<"show">> ELSE <<>>)
         /\ gdf' = c.gdf
         /\ df_pivot' = <<>>
         /\ candidats' = cands
         /\ merged' = m
         /\ source' = ToColumnsSimplified(m, cands)
         /\ color_mapper' = [low  |-> VoteMin(m, cands),
                             high |-> VoteMax(m, cands)]
         /\ title' = c.title \o " : " \o FirstCandidat(cands)
         /\ select_value' = FirstCandidat(cands)
         /\ viewport' = [kind |-> "auto"]

CreateSimplifiedElectionMap(g, candidate_votes, map_title, show_plot) ==
    LET c == [fn |-> "create_simplified_election_map", gdf |-> g,
              candidate_votes |-> candidate_votes, title |-> map_title,
              show_plot |-> show_plot]
        c0 == [fn |-> "create_simplified_election_map"]
    IN
    /\ pkg = "imported"
    /\ outcome = "none"
    /\ UNCHANGED <<charts, env, mods, interacted>>
    /\ IF ~BOKEH_AVAILABLE
       THEN Raise(c0, ErrBokehSimplified,
                  <<>>, NoGdf)
       ELSE IF candidate_votes.keys = <<>>
       THEN Raise(c, ErrIndex, <<>>, g)
       ELSE SimplifiedBuildFigure(c,
                WithDisplay(FillNa(MergeLeft(g.names, VotesDf(candidate_votes),
                                             Range(candidate_votes.keys))),
                            candidate_votes.keys),
                candidate_votes.keys)

\* -------------------------------------------------- bokeh_td_election_map
RECURSIVE Pow2(_)
Pow2(n) == IF n = 0 THEN 1 ELSE 2 * Pow2(n - 1)

\* gdf[value_col].dropna()
DropNa(vals) == SelectSeq(vals, LAMBDA v : ~IsNaN(v))

\* plots.py lines 223-230
ColorRange(vals) ==
    IF Len(vals) = 0 THEN [low |-> Rat(0), high |-> Rat(1)]
    ELSE IF MinOf(Range(vals)) = MaxOf(Range(vals))
    THEN [low |-> Rat(0), high |-> MaxOf(Range(vals))]
    ELSE [low |-> MinOf(Range(vals)), high |-> MaxOf(Range(vals))]

\* mutant: the half-extents divided by 2^zoom instead of 2^(zoom-1)
ViewportBokehOffByOne(g, zoom) ==
    IF g.bounds_ok
    THEN LET cx == Frac(g.box[1] + g.box[3], 2)
             cy == Frac(g.box[2] + g.box[4], 2)
             hx == Frac(1000000, Pow2(zoom))
             hy == Frac(800000, Pow2(zoom))
         IN  [kind    |-> "centered",
              x_range |-> <<RatSub(cx, hx), RatAdd(cx, hx)>>,
              y_range |-> <<RatSub(cy, hy), RatAdd(cy, hy)>>]
    ELSE [kind |-> "auto"]

\* plots.py lines 291-300
ViewportBokeh(g, zoom) ==
    IF g.bounds_ok
    THEN LET cx == Frac(g.box[1] + g.box[3], 2)
             cy == Frac(g.box[2] + g.box[4], 2)
             hx == Frac(1000000, Pow2(zoom - 1))
             hy == Frac(800000, Pow2(zoom - 1))
         IN  [kind    |-> "centered",
              x_range |-> <<RatSub(cx, hx), RatAdd(cx, hx)>>,
              y_range |-> <<RatSub(cy, hy), RatAdd(cy, hy)>>]
    ELSE [kind |-> "auto"]

\* the columns of the data source the patches end up bound to
BokehColumns(g, has_name_col) ==
    [k \in {"value", IF has_name_col THEN "name" ELSE "_idx_for_hover"} |->
        IF k = "value" THEN g.values
        ELSE IF k = "name" THEN g.names
        ELSE [i \in 1..Len(g.names) |-> i - 1]]

\* plots.py lines 220-305
BokehBuildFigure(c, g) ==
    /\ call' = c
    /\ outcome' = "returned"
    /\ error' = ""
    /\ effects' = <<"GeoJSONDataSource", "figure", "add_tile", "patches">>
                      \o (IF c.has_name_col THEN <<>>
                          ELSE <<"GeoJSONDataSource", "add_tile", "patches">>)
                      \o (IF c.show_plot THEN <<"show">> ELSE <<>>)
    /\ gdf' = g
    /\ df_pivot' = <<>>
    /\ candidats' = <<>>
    /\ merged' = <<>>
    /\ source' = BokehColumns(g, c.has_name_col)
    /\ color_mapper' = ColorRange(DropNa(g.values))
    /\ title' = ""
    /\ select_value' = ""
    /\ viewport' = ViewportBokeh(g, c.zoom)

BokehTdElectionMap(g, has_name_col, zoom, show_plot) ==
    LET c == [fn |-> "bokeh_td_election_map", gdf |-> g,
              has_name_col |-> has_name_col, zoom |-> zoom,
              show_plot |-> show_plot]
        c0 == [fn |-> "bokeh_td_election_map"]
    IN
    /\ pkg = "imported"
    /\ outcome = "none"
    /\ UNCHANGED <<charts, env, mods, interacted>>
    /\ IF ~plots_BOKEH_AVAILABLE
       THEN Raise(c0, ErrBokehPlots,
                  <<>>, NoGdf)
       ELSE IF ~geopandas
       THEN Raise(c0, ErrNoGeoPandas,
                  <<>>, NoGdf)
       ELSE IF ~g.has_geometry
       THEN Raise(c, ErrNoGeometry,
                  <<>>, g)
       \* lines 213-218: the retry in the except branch is not guarded
       ELSE IF NeedsConversion(g) /\ ToCrsFails(g)
       THEN Raise(c, ErrNaiveCrs,
                  <<>>, g)
       ELSE BokehBuildFigure(c, IF NeedsConversion(g) THEN ToCrs(g) ELSE g)

\* ------------------------------------------------- styles.set_bibo_style
\* mutant: the style argument is ignored
ResolveStyleAlwaysDefault(style) == DEFAULT_STYLE

\* styles.py line 31: s = style or DEFAULT_STYLE (a BiboStyle is truthy)
ResolveStyle(style) == IF style = None THEN DEFAULT_STYLE ELSE style

\* styles.py lines 29-48: mpl.rcParams after set_bibo_style(style)
SetBiboStyle(style) == Update(rcParams, StyleParams(ResolveStyle(style)))

\* the styles a caller passes: nothing, the default or one of their own
Styles == { None, DEFAULT_STYLE } \cup CustomStyles

\* a call of set_bibo_style(style)
CallSetBiboStyle ==
    \E style \in Styles :
        /\ rcParams' = SetBiboStyle(style)
        /\ rc_before' = rcParams
        /\ chart_call' = [fn |-> "set_bibo_style", style |-> style]
        /\ chart_ret' = None
        /\ UNCHANGED <<DEFAULT_STYLE, figures, axes, ncalls, maps>>

\* -------------------------------------------------- the styled_* helpers
\* plots.py lines 11-12
GetColor(idx) ==
    DEFAULT_STYLE.palette[(idx % Len(DEFAULT_STYLE.palette)) + 1]

\* plt.subplots(figsize=(7.2, 4.2)) under the parameters rc: the new figure
\* and its axes
NewFigure(rc) ==
    [figsize |-> <<Frac(36, 5), Frac(21, 5)>>, dpi |-> rc["figure.dpi"],
     shown |-> FALSE]

NewAxes(fig, rc) ==
    [figure |-> fig, rc |-> rc, artists |-> <<>>, title |-> "",
     xlabel |-> "", ylabel |-> "",
     margins |-> [x |-> Frac(1, 20), y |-> Frac(1, 20)],
     xtick_rotation |-> 0]

\* mutant: a new figure is made even when an axes is supplied
PrepAxAlwaysNew(ax, rc) ==
    [fig     |-> Len(figures) + 1,
     ax      |-> Len(axes) + 1,
     figures |-> Append(figures, NewFigure(rc)),
     axes    |-> Append(axes, NewAxes(Len(figures) + 1, rc))]

\* plots.py lines 14-19; ax = 0 stands for None, an axes is named by its
\* position in axes, a figure by its position in figures
PrepAx(ax, rc) ==
    IF ax = 0
    THEN [fig     |-> Len(figures) + 1,
          ax      |-> Len(axes) + 1,
          figures |-> Append(figures, NewFigure(rc)),
          axes    |-> Append(axes, NewAxes(Len(figures) + 1, rc))]
    ELSE [fig     |-> axes[ax].figure,
          ax      |-> ax,
          figures |-> figures,
          axes    |-> axes]

\* color or _get_color(idx); an optional colour is <<>> (None) or <<c>>
ColorOr(color, idx) == IF color = <<>> THEN GetColor(idx) ELSE color[1]

\* the drawing call and the set_title / set_xlabel / set_ylabel / margins /
\* tick_params calls that follow it, on the axes pa.ax
Draw(pa, artist, chart_title, xlabel, ylabel, margins, rotation) ==
    [pa.axes EXCEPT ![pa.ax] =
        [@ EXCEPT !.artists = Append(@, artist),
                  !.title = chart_title,
                  !.xlabel = xlabel,
                  !.ylabel = ylabel,
                  !.margins = margins,
                  !.xtick_rotation = rotation]]

\* plt.show()
Show(figs) == [ i \in DOMAIN figs |-> [figs[i] EXCEPT !.shown = TRUE] ]

\* if show: plt.show(); return fig, ax
Return(fn, ax, show, rc, pa, drawn) ==
    /\ rcParams' = rc
    /\ rc_before' = rcParams
    /\ figures' = IF show THEN Show(pa.figures) ELSE pa.figures
    /\ axes' = drawn
    /\ chart_call' = [fn |-> fn, ax |-> ax, show |-> show]
    /\ chart_ret' = [fig |-> pa.fig, ax |-> pa.ax]
    /\ ncalls' = ncalls + 1
    /\ UNCHANGED <<DEFAULT_STYLE, maps>>

\* plots.py lines 21-43
StyledLine(x, y, chart_title, xlabel, ylabel, marker, color, ax, show) ==
    LET rc == SetBiboStyle(None)
        pa == PrepAx(ax, rc)
        artist == [kind |-> "plot", n |-> Len(y), marker |-> marker,
                   color |-> ColorOr(color, 0), rc |-> rc]
    IN  Return("styled_line", ax, show, rc, pa,
               Draw(pa, artist, chart_title, xlabel, ylabel,
                    [x |-> Frac(1, 50), y |-> Frac(2, 25)],
                    pa.axes[pa.ax].xtick_rotation))

\* plots.py lines 45-68
StyledScatter(x, y, chart_title, xlabel, ylabel, size, alpha, color, ax, show) ==
    LET rc == SetBiboStyle(None)
        pa == PrepAx(ax, rc)
        artist == [kind |-> "scatter", n |-> Len(y), s |-> size,
                   alpha |-> alpha, color |-> ColorOr(color, 1),
                   edgecolors |-> "white", linewidths |-> Frac(7, 10),
                   rc |-> rc]
    IN  Return("styled_scatter", ax, show, rc, pa,
               Draw(pa, artist, chart_title, xlabel, ylabel,
                    [x |-> Frac(1, 50), y |-> Frac(2, 25)],
                    pa.axes[pa.ax].xtick_rotation))

\* plots.py lines 70-94
StyledBar(categories, values, chart_title, xlabel, ylabel, color, rotate_xticks, ax, show) ==
    LET rc == SetBiboStyle(None)
        pa == PrepAx(ax, rc)
        artist == [kind |-> "bar", n |-> Len(values),
                   alpha |-> Frac(23, 25), color |-> ColorOr(color, 2),
                   rc |-> rc]
    IN  Return("styled_bar", ax, show, rc, pa,
               Draw(pa, artist, chart_title, xlabel, ylabel,
                    [pa.axes[pa.ax].margins EXCEPT !.y = Frac(3, 25)],
                    IF rotate_xticks THEN 20
                    ELSE pa.axes[pa.ax].xtick_rotation))

\* plots.py lines 96-117
StyledHist(data, bins, chart_title, xlabel, ylabel, color, ax, show) ==
    LET rc == SetBiboStyle(None)
        pa == PrepAx(ax, rc)
        artist == [kind |-> "hist", n |-> Len(data), bins |-> bins,
                   alpha |-> Frac(22, 25), color |-> ColorOr(color, 3),
                   edgecolor |-> "white", linewidth |-> Frac(9, 10),
                   rc |-> rc]
    IN  Return("styled_hist", ax, show, rc, pa,
               Draw(pa, artist, chart_title, xlabel, ylabel,
                    [pa.axes[pa.ax].margins EXCEPT !.y = Frac(2, 25)],
                    pa.axes[pa.ax].xtick_rotation))

\* plots.py lines 119-146; the boxes take the palette's colours in order
StyledBox(data, labels, chart_title, ylabel, ax, show) ==
    LET rc == SetBiboStyle(None)
        pa == PrepAx(ax, rc)
        artist == [kind |-> "boxplot", n |-> Len(data), labels |-> labels,
                   alpha |-> Frac(3, 4),
                   facecolors |-> [ i \in 1..Len(data) |-> GetColor(i - 1) ],
                   rc |-> rc]
    IN  Return("styled_box", ax, show, rc, pa,
               Draw(pa, artist, chart_title, pa.axes[pa.ax].xlabel, ylabel,
                    [pa.axes[pa.ax].margins EXCEPT !.y = Frac(1, 10)],
                    pa.axes[pa.ax].xtick_rotation))

\* ------------------------------------------------- chart calls of a caller
\* the numbers plotted
Series == { <<1, 2, 3>> }

\* title, xlabel, ylabel, color and show as a caller combines them: the
\* defaults, or everything chosen and no display
ChartCosmetics == { <<"", "", "", <<>>, TRUE>>,
                    <<"Ventes", "mois", "total", <<"#000000">>, FALSE>> }

\* the same for styled_hist, whose ylabel defaults to "Count"
HistCosmetics == { <<"", "", "Count", <<>>, TRUE>>,
                   <<"Ventes", "mois", "total", <<"#000000">>, FALSE>> }

\* the ax argument: None, or an axes an earlier call returned
AxArgs == 0..Len(axes)

CanDraw == ncalls < MaxCharts

CallStyledLine ==
    /\ CanDraw
    /\ \E x \in Series, k \in ChartCosmetics, ax \in AxArgs :
          StyledLine(x, x, k[1], k[2], k[3], "o", k[4], ax, k[5])

CallStyledScatter ==
    /\ CanDraw
    /\ \E x \in Series, k \in ChartCosmetics, ax \in AxArgs :
          StyledScatter(x, x, k[1], k[2], k[3], 55, Frac(9, 10), k[4], ax,
                        k[5])

CallStyledBar ==
    /\ CanDraw
    /\ \E v \in Series, k \in ChartCosmetics, ax \in AxArgs :
          StyledBar(<<"a", "b", "c">>, v, k[1], k[2], k[3], k[4], k[5], ax,
                    k[5])

CallStyledHist ==
    /\ CanDraw
    /\ \E d \in Series, k \in HistCosmetics, ax \in AxArgs :
          StyledHist(d, 12, k[1], k[2], k[3], k[4], ax, k[5])

CallStyledBox ==
    /\ CanDraw
    /\ \E d \in Series, k \in ChartCosmetics, ax \in AxArgs :
          StyledBox(<<d, d>>, <<"a", "b">>, k[1], k[3], ax, k[5])

NextCharts ==
    \/ CallSetBiboStyle
    \/ CallStyledLine
    \/ CallStyledScatter
    \/ CallStyledBar
    \/ CallStyledHist
    \/ CallStyledBox

\* the helpers read nothing of the map libraries: one environment, with
\* both installed, stands for all
InitCharts == Init /\ bokeh /\ geopandas

SpecCharts == InitCharts /\ [][NextCharts]_vars

\* ----------------------------------------------------------- map calls
Shapefiles ==
    { [names |-> n, crs |-> k.crs, bounds_ok |-> k.bounds_ok, box |-> k.box] :
        n \in NameSeqs, k \in GeomKinds }

\* title_prefix, output_type and show_plot as a caller combines them: the
\* defaults, or a custom title written to a file without display
Cosmetics == { <<"Résultats électoraux", "notebook", TRUE>>,
               <<"Elections", "file", FALSE>> }

\* A session imports the package, builds one map and then uses its
\* dropdown; the builders read nothing of an earlier call.
CanCall == pkg = "imported" /\ outcome = "none"

CallCreateTd ==
    /\ CanCall
    /\ \E csv \in Tables, shp \in Shapefiles, year \in Years,
          cos \in Cosmetics :
          CreateTdElectionMap(shp, csv, year, cos[1], cos[2], cos[3])

\* a Series of votes indexed by region: any subset of the regions
SeriesSet == UNION {[S -> VoteValues] : S \in SUBSET Regions}

\* candidate_votes: the keys in insertion order and their Series
KeySeqs == { k \in UNION {[1..n -> Cands] : n \in 0..Cardinality(Cands)} :
               \A i, j \in 1..Len(k) : i # j => k[i] # k[j] }

CandidateVotes ==
    UNION { {[keys |-> k, series |-> sr] : sr \in [Range(k) -> SeriesSet]} :
            k \in KeySeqs }

\* in-memory geometry tables handed to the two other builders
Gdfs ==
    { [names |-> n, crs |-> "EPSG:4326", bounds_ok |-> TRUE,
       box |-> <<-25, 0, 0, 25>>] : n \in NameSeqs }

SimplifiedCosmetics == { <<"Election Results", TRUE>>, <<"Elections", FALSE>> }

CallCreateSimplified ==
    /\ CanCall
    /\ \E g \in Gdfs, cv \in CandidateVotes, cos \in SimplifiedCosmetics :
          CreateSimplifiedElectionMap(g, cv, cos[1], cos[2])

\* cells of the value column of bokeh_td_election_map
ValueCells == {NaN, Rat(0), Rat(1), Rat(2)}

BokehGdfs ==
    UNION { { [names |-> shp.names, crs |-> shp.crs,
               bounds_ok |-> shp.bounds_ok, box |-> shp.box,
               values |-> v, has_geometry |-> hg] :
                v \in [1..Len(shp.names) -> ValueCells] } :
            shp \in Shapefiles, hg \in BOOLEAN }

CallBokehTd ==
    /\ CanCall
    /\ \E g \in BokehGdfs, nc \in BOOLEAN, zoom \in 1..MaxZoom,
          sp \in BOOLEAN :
          BokehTdElectionMap(g, nc, zoom, sp)

Dropdown == \E c \in Cands : SelectCandidat(c)

Next ==
    \/ ImportPackage
    \/ CallCreateTd
    \/ CallCreateSimplified
    \/ CallBokehTd
    \/ Dropdown

Spec == Init /\ [][Next]_vars

\* ================================================================= claims
TdCalled ==
    call.fn = "create_td_election_map" /\ "csv" \in DOMAIN call

TdBuilt == outcome = "returned" /\ call.fn = "create_td_election_map"

SimplifiedBuilt ==
    outcome = "returned" /\ call.fn = "create_simplified_election_map"

MapBuilt == TdBuilt \/ SimplifiedBuilt

\* the vote table has no row for the requested year
ZeroRowsForYear ==
    \A k \in 1..Len(call.csv) : call.csv[k].year # call.year

\* C1: create_td_election_map called with a year for which the vote table
\* has zero rows raises the ValueError naming the year, and has then built
\* neither a data source nor a figure and returns no table; with at least
\* one matching row it does not raise this error.
C1_NoRowsForYearRaises ==
    TdCalled =>
        /\ ZeroRowsForYear =>
              /\ outcome = "raised"
              /\ error = NoDataError(call.year)
              /\ "GeoJSONDataSource" \notin Range(effects)
              /\ "figure" \notin Range(effects)
              /\ merged = <<>> /\ source = <<>> /\ title = ""
        /\ ~ZeroRowsForYear => error # NoDataError(call.year)

\* a non-empty vote table none of whose rows is of the requested year
C1_Witness ==
    /\ TdCalled
    /\ call.csv # <<>>
    /\ ZeroRowsForYear
    /\ outcome = "raised"

\* the region of row i of the merged table has a row in the vote data
HasVoteRow(i) ==
    IF call.fn = "create_td_election_map"
    THEN \E k \in 1..Len(call.csv) :
            /\ call.csv[k].year = call.year
            /\ call.csv[k].moughataa = merged[i].moughataa
    ELSE \E c \in Range(call.candidate_votes.keys) :
            merged[i].moughataa \in DOMAIN call.candidate_votes.series[c]

\* C2: in the merged table of both builders no candidate cell is missing,
\* and a region of the geometry without any row in the vote data holds
\* exactly 0 in every candidate column and in votes_display.
C2_UnmatchedRegionsZero ==
    MapBuilt =>
        \A i \in 1..Len(merged) :
            /\ \A c \in Range(candidats) : ~IsNaN(merged[i].cols[c])
            /\ ~IsNaN(merged[i].votes_display)
            /\ ~HasVoteRow(i) =>
                  /\ \A c \in Range(candidats) : merged[i].cols[c] = Rat(0)
                  /\ merged[i].votes_display = Rat(0)

\* a map with one region absent from the vote data beside one present
C2_Witness ==
    /\ MapBuilt
    /\ \E i, j \in 1..Len(merged) : ~HasVoteRow(i) /\ HasVoteRow(j)

\* the vote rows of the requested year
RowsOfYear == {k \in 1..Len(call.csv) : call.csv[k].year = call.year}

RECURSIVE SumVotes(_)
\* total of nb_votes over a set of row numbers of the vote table
SumVotes(K) ==
    IF K = {} THEN 0
    ELSE LET k == CHOOSE x \in K : TRUE
         IN  call.csv[k].nb_votes + SumVotes(K \ {k})

\* C3: the reshape of create_td_election_map yields one row per region and
\* one column per candidate of the year's vote rows, and every cell equals
\* the total of the vote rows of its (region, candidate) pair, 0 when the
\* pair has no row.
C3_PivotCellsAreTotals ==
    TdBuilt =>
        /\ {df_pivot[i].moughataa : i \in 1..Len(df_pivot)}
              = {call.csv[k].moughataa : k \in RowsOfYear}
        /\ \A i, j \in 1..Len(df_pivot) :
              i # j => df_pivot[i].moughataa # df_pivot[j].moughataa
        /\ Range(candidats) = {call.csv[k].candidate : k \in RowsOfYear}
        /\ \A i \in 1..Len(df_pivot) :
              /\ DOMAIN df_pivot[i].cols = Range(candidats)
              /\ \A c \in Range(candidats) :
                    df_pivot[i].cols[c] =
                        Rat(SumVotes({k \in RowsOfYear :
                                /\ call.csv[k].moughataa = df_pivot[i].moughataa
                                /\ call.csv[k].candidate = c}))

\* the candidate that is first in the column order of the builder called
FirstInColumnOrder ==
    IF call.fn = "create_td_election_map"
    THEN CHOOSE c \in {call.csv[k].candidate : k \in RowsOfYear} :
            \A d \in {call.csv[k].candidate : k \in RowsOfYear} :
                Rank(c) <= Rank(d)
    ELSE call.candidate_votes.keys[1]

TitlePrefixOf == IF TdBuilt THEN call.title_prefix ELSE call.title

\* C4: before any dropdown interaction the active candidate of both
\* builders is the first candidate in column order: every row's
\* votes_display is that candidate's column and current_candidat its name,
\* in the table and in the data source, and the dropdown's value and the
\* figure title name the same candidate.
C4_InitialCandidateIsFirst ==
    (MapBuilt /\ ~interacted) =>
        /\ candidats[1] = FirstInColumnOrder
        /\ \A i \in 1..Len(merged) :
              /\ merged[i].votes_display = merged[i].cols[candidats[1]]
              /\ merged[i].current_candidat = candidats[1]
              /\ source["votes_display"][i] = merged[i].cols[candidats[1]]
              /\ source["current_candidat"][i] = candidats[1]
        /\ select_value = candidats[1]
        /\ title = TitlePrefixOf \o " : " \o candidats[1]

\* a fresh map with two candidates whose columns differ
C4_Witness ==
    /\ MapBuilt /\ ~interacted
    /\ Len(candidats) = 2
    /\ \E i \in 1..Len(merged) :
          merged[i].cols[candidats[1]] # merged[i].cols[candidats[2]]

\* C5: in every state of a map of both builders, right after construction
\* and after any dropdown selections, the colour mapper's low and high are
\* the minimum and maximum over all candidates' columns of the merged
\* table; in the end-to-end scenario (regions A, B; rows (A,cand1,2024,10),
\* (B,cand1,2024,20), (A,cand2,2024,5)) they are 0 and 20.
C5_ColorBoundsOverAllCandidates ==
    /\ MapBuilt =>
          /\ \A i \in 1..Len(merged) : \A c \in Range(candidats) :
                /\ RatLeq(color_mapper.low, merged[i].cols[c])
                /\ RatLeq(merged[i].cols[c], color_mapper.high)
          /\ \E i \in 1..Len(merged) : \E c \in Range(candidats) :
                merged[i].cols[c] = color_mapper.low
          /\ \E i \in 1..Len(merged) : \E c \in Range(candidats) :
                merged[i].cols[c] = color_mapper.high
    /\ (/\ TdBuilt
        /\ call.csv = ScenarioTable
        /\ call.year = 2024
        /\ call.shapefile.names = <<"A", "B">>) =>
          /\ color_mapper = [low |-> Rat(0), high |-> Rat(20)]
          /\ candidats = <<"cand1", "cand2">>
          /\ merged[2].cols["cand2"] = Rat(0)
          /\ ~interacted => select_value = "cand1"

\* after a selection, a map whose displayed column does not reach the
\* upper bound of the scale
C5_Witness ==
    /\ MapBuilt /\ interacted
    /\ \A i \in 1..Len(merged) :
          RatLt(source["votes_display"][i], color_mapper.high)

BokehBuilt == outcome = "returned" /\ call.fn = "bokeh_td_election_map"

\* the values bound to the colour scale of the map that was built
ScaleValues ==
    IF BokehBuilt THEN Range(DropNa(call.gdf.values))
    ELSE {merged[i].cols[c] : i \in 1..Len(merged), c \in Range(candidats)}

\* C6: in each of the three map builders, when all the values bound to the
\* colour scale are equal, the colour mapper built is still non-degenerate:
\* its lower bound is strictly below the single value, so low < high.
C6_ScaleNeverDegenerate ==
    (/\ MapBuilt \/ BokehBuilt
     /\ ScaleValues # {}
     /\ \A v, w \in ScaleValues : v = w) =>
        /\ \A v \in ScaleValues : RatLt(color_mapper.low, v)
        /\ RatLt(color_mapper.low, color_mapper.high)

\* C7: after any sequence of dropdown selections on a map of both builders,
\* with c the last selected candidate, votes_display is the precomputed
\* column of c and current_candidat is c in every row; the candidates'
\* columns, the region names, the merged table and the geometry are as
\* built, so that a candidate selected again shows the same values.
C7_SelectionShowsPrecomputedColumn ==
    (MapBuilt /\ interacted) =>
        /\ select_value \in Range(candidats)
        /\ \A i \in 1..Len(merged) :
              /\ source["votes_display"][i] = merged[i].cols[select_value]
              /\ source["current_candidat"][i] = select_value
              /\ \A c \in Range(candidats) : source[c][i] = merged[i].cols[c]
              /\ TdBuilt => source["moughataa"][i] = call.shapefile.names[i]
        /\ \A k \in DOMAIN source : Len(source[k]) = Len(merged)
        /\ TdBuilt => gdf = ConvertTd(call.shapefile)
        /\ SimplifiedBuilt => gdf = call.gdf

\* the first candidate selected again after another one, on a map whose
\* two columns differ
C7_Witness ==
    /\ MapBuilt /\ interacted
    /\ Len(candidats) = 2
    /\ select_value = candidats[1]
    /\ \E i \in 1..Len(merged) :
          merged[i].cols[candidats[1]] # merged[i].cols[candidats[2]]

\* C8: the merged table of create_td_election_map has exactly one row per
\* row of the geometry table, in the geometry table's order; vote rows
\* whose region matches no geometry row are dropped without error.
C8_OneRowPerGeometryRow ==
    /\ TdBuilt =>
          /\ Len(merged) = Len(call.shapefile.names)
          /\ \A i \in 1..Len(merged) :
                merged[i].moughataa = call.shapefile.names[i]
    /\ (TdCalled /\ outcome = "raised") =>
          \/ ZeroRowsForYear
          \/ call.shapefile.names = <<>>

\* a map built from vote rows of a region the geometry does not have, and
\* from a geometry with a region the vote rows do not have
C8_Witness ==
    /\ TdBuilt
    /\ \E k \in RowsOfYear :
          call.csv[k].moughataa \notin Range(call.shapefile.names)
    /\ \E i \in 1..Len(merged) : ~HasVoteRow(i)

BokehMessages ==
    { ErrBokehTd,
      ErrBokehSimplified,
      ErrBokehPlots }

GeoPandasMessages ==
    { ErrGeoPandasTd }

\* C9: with an optional mapping/geometry dependency missing, the package
\* still imports, and each map builder fails at call time, as its first
\* effect, with a descriptive error naming the missing library, before any
\* file is read, any output mode is set or any figure is constructed.
C9_MissingDependencyFailsAtCallTime ==
    /\ (pkg # "unloaded" /\ (~bokeh \/ ~geopandas)) => pkg = "imported"
    /\ (call.fn # "none" /\ (~bokeh \/ ~geopandas)) =>
          /\ outcome = "raised"
          /\ effects = <<>>
          /\ ~bokeh => error \in BokehMessages
          /\ (bokeh /\ ~geopandas) => error \in GeoPandasMessages

\* the geometry table handed to the builder that was called
InputGdf == IF TdCalled THEN call.shapefile ELSE call.gdf

\* C10: in create_td_election_map and bokeh_td_election_map a failure of
\* the coordinate-system conversion or of the bounding-box computation is
\* never propagated: the builder returns a figure that uses the unconverted
\* geometry, respectively a fallback viewport.
C10_GeometryFailuresNotPropagated ==
    /\ error # ErrNaiveCrs
    /\ (/\ outcome = "returned"
        /\ call.fn \in {"create_td_election_map", "bokeh_td_election_map"}) =>
          /\ ToCrsFails(InputGdf) => gdf.crs = InputGdf.crs
          /\ ~InputGdf.bounds_ok => viewport.kind \in {"fallback", "auto"}

\* the primitive each helper draws
PrimitiveOf(fn) ==
    CASE fn = "styled_line"    -> "plot"
      [] fn = "styled_scatter" -> "scatter"
      [] fn = "styled_bar"     -> "bar"
      [] fn = "styled_hist"    -> "hist"
      [] fn = "styled_box"     -> "boxplot"

StyledHelpers == { "styled_line", "styled_scatter", "styled_bar",
                   "styled_hist", "styled_box" }

\* C11: every call of a styled_* helper applies the global style before it
\* draws, adds exactly one primitive (of the helper's kind) to one axes and
\* returns that axes with its figure; a supplied axes is the one returned,
\* with its own figure, and no figure is created; a figure is created only
\* when no axes is supplied, and then exactly one.
C11_HelperDrawsOnceOnItsSurface ==
    [][ ncalls' # ncalls =>
          LET ax_in  == chart_call'.ax
              fig    == chart_ret'.fig
              ax     == chart_ret'.ax
              before == IF ax_in = 0 THEN <<>> ELSE axes[ax_in].artists
              after  == axes'[ax].artists
          IN  /\ chart_call'.fn \in StyledHelpers
              /\ ax \in 1..Len(axes')
              /\ fig \in 1..Len(figures')
              /\ axes'[ax].figure = fig
              /\ ax_in # 0 =>
                    /\ ax = ax_in
                    /\ fig = axes[ax_in].figure
                    /\ Len(figures') = Len(figures)
                    /\ Len(axes') = Len(axes)
              /\ ax_in = 0 =>
                    /\ Len(figures') = Len(figures) + 1
                    /\ Len(axes') = Len(axes) + 1
                    /\ fig = Len(figures')
                    /\ ax = Len(axes')
              /\ Len(after) = Len(before) + 1
              /\ SubSeq(after, 1, Len(before)) = before
              /\ after[Len(after)].kind = PrimitiveOf(chart_call'.fn)
              /\ \A i \in 1..Len(axes) : i # ax => axes'[i] = axes[i]
              /\ after[Len(after)].rc = rcParams'
              /\ \A k \in DOMAIN StyleParams(BiboStyle) :
                    after[Len(after)].rc[k] = StyleParams(BiboStyle)[k]
      ]_vars

\* a helper was handed the axes of an earlier call and returned it with
\* its figure, the only figure there is
C11_Witness ==
    /\ chart_call.fn \in StyledHelpers
    /\ chart_call.ax = 1
    /\ chart_ret = [fig |-> 1, ax |-> 1]
    /\ Len(figures) = 1
    /\ Len(axes[1].artists) = 2
    /\ ncalls = 2

\* the style the latest call wrote, as the claim states it
LastWrittenStyle ==
    IF chart_call.fn = "set_bibo_style" /\ chart_call.style # None
    THEN chart_call.style
    ELSE BiboStyle

\* C12: the process-wide style is last-writer-wins: after any sequence of
\* set_bibo_style and styled_* calls every key set_bibo_style manages holds
\* the value the latest call wrote: the style passed to set_bibo_style (the
\* default one for None), and the default style after any styled_* helper,
\* whatever was installed before. DEFAULT_STYLE is never changed.
C12_LastWriterWins ==
    /\ DEFAULT_STYLE = BiboStyle
    /\ chart_call.fn # "none" =>
          /\ rcParams["font.family"] = LastWrittenStyle.font_family
          /\ rcParams["font.size"] = LastWrittenStyle.font_size
          /\ rcParams["axes.titlesize"] = LastWrittenStyle.title_size
          /\ rcParams["axes.labelsize"] = LastWrittenStyle.label_size
          /\ rcParams["axes.titleweight"] = "bold"
          /\ rcParams["axes.grid"] = TRUE
          /\ rcParams["grid.alpha"] = LastWrittenStyle.grid_alpha
          /\ rcParams["axes.spines.top"] = FALSE
          /\ rcParams["axes.spines.right"] = FALSE
          /\ rcParams["axes.edgecolor"]
                = <<0, 0, 0, LastWrittenStyle.spine_alpha>>
          /\ rcParams["xtick.color"] = <<0, 0, 0, LastWrittenStyle.tick_alpha>>
          /\ rcParams["ytick.color"] = <<0, 0, 0, LastWrittenStyle.tick_alpha>>
          /\ rcParams["lines.linewidth"] = LastWrittenStyle.line_width
          /\ rcParams["figure.dpi"] = 110
          /\ rcParams["savefig.dpi"] = 160

\* a styled_* helper ran while a custom style was installed, and the
\* default style replaced it
C12_Witness ==
    /\ chart_call.fn \in StyledHelpers
    /\ rc_before["font.size"] = 9
    /\ rc_before["lines.linewidth"] = Rat(1)
    /\ rcParams["font.size"] = 11
    /\ rcParams["lines.linewidth"] = Frac(11, 5)

\* C13: bokeh_td_election_map centres the initial view on the centre of
\* the data's bounding box: both ranges are symmetric about the centre
\* ((minx+maxx)/2, (miny+maxy)/2), the x range is 2 * 1,000,000 / 2^(zoom-1)
\* wide and the y range 2 * 800,000 / 2^(zoom-1) high (so that one more
\* zoom level halves both), and start < end on both axes.
C13_ViewCentredOnBoundingBox ==
    (BokehBuilt /\ gdf.bounds_ok) =>
        /\ viewport.kind = "centered"
        /\ RatAdd(viewport.x_range[1], viewport.x_range[2])
              = Rat(gdf.box[1] + gdf.box[3])
        /\ RatAdd(viewport.y_range[1], viewport.y_range[2])
              = Rat(gdf.box[2] + gdf.box[4])
        /\ LET w == RatSub(viewport.x_range[2], viewport.x_range[1])
               h == RatSub(viewport.y_range[2], viewport.y_range[1])
           IN  /\ w.num * Pow2(call.zoom - 1) = 2000000 * w.den
               /\ h.num * Pow2(call.zoom - 1) = 1600000 * h.den
        /\ RatLt(viewport.x_range[1], viewport.x_range[2])
        /\ RatLt(viewport.y_range[1], viewport.y_range[2])

\* a map of a projected, non-degenerate bounding box at the second zoom
\* level
C13_Witness ==
    /\ BokehBuilt /\ gdf.bounds_ok
    /\ call.zoom = 2
    /\ call.gdf.crs = "EPSG:4326"
    /\ gdf.box[1] # gdf.box[3]

\* C14: in every state of a map of both builders, initially and after any
\* dropdown selections, the figure title is the caller's title prefix
\* followed by " : " and the name of the active candidate, in agreement
\* with current_candidat.
C14_TitleKeepsCallerPrefix ==
    MapBuilt =>
        /\ title = TitlePrefixOf \o " : " \o select_value
        /\ \A i \in 1..Len(merged) :
              source["current_candidat"][i] = select_value

====
